---------------------------- MODULE Spec2Model ----------------------------
(***************************************************************************)
(* Model of the time-weighted moving-average accumulator MovingAvg of      *)
(* sensor.py: a deque of [value, timestamp] samples, a window and a        *)
(* precision, driven by update_value (record), update (evaluate) and       *)
(* reset.                                                                  *)
(*                                                                         *)
(* Timestamps are whole seconds and sample values are integers.  The       *)
(* float accumulator ret_val is kept as an exact fraction: every term      *)
(* added by _weighted has the same divisor `duration`, so ret_val is the   *)
(* pair (sum of value * delta, duration).  Binary floating-point error of  *)
(* the individual divisions is therefore not represented.                  *)
(*                                                                         *)
(* Each sample carries a provenance tag `synthetic` that the program does  *)
(* not store: FALSE for a sample appended by update_value, TRUE for the    *)
(* boundary sample update() puts back at the front.  No operator of the    *)
(* program reads it.                                                       *)
(*                                                                         *)
(* Three specifications share the averager:                                *)
(*   Spec        the averager called directly with any evaluation instant  *)
(*   RefSpec     the averager called with non-decreasing timestamps, next  *)
(*               to the list of all samples recorded since the last reset  *)
(*   SensorSpec  SensorMovingAvg driving the averager from state-change    *)
(*               events and polls                                          *)
(***************************************************************************)
EXTENDS Integers, Sequences, FiniteSets

\* ---- bounds of the model ------------------------------------------------
\* window length in seconds (self._window, a configured positive duration)
W == 4
\* timestamps range over 0..MaxT
MaxT == 8
\* update_value is not called once the deque holds MaxLen samples
MaxLen == 3
\* precision ranges over 0..MaxPrecision
MaxPrecision == 1
\* sample values fed to update_value
Values == {1, 2}
\* RefSpec records at most MaxHist samples between two resets
MaxHist == 4
\* self._timeout in seconds (a configured positive duration)
Timeout == 2
\* SensorSpec: the clock ranges over 0..MaxClock
MaxClock == 5
\* SensorSpec: no numeric state arrives once the deque holds MaxSensorLen samples
MaxSensorLen == 2

Times == 0..MaxT

VARIABLES
    data,       \* self._data: sequence of samples, oldest first
    precision,  \* self._precision
    lastRec,    \* timestamp of the previously recorded sample (0 before any)
    epoch,      \* "new": constructed, nothing recorded; "reset": reset and
                \* nothing recorded since; "recorded": a sample was recorded
                \* since construction or the last reset
    call,       \* the last call made: [op, val, timestamp]
    repeated,   \* the last call was update(t) and the call before it was
                \* update(t) or update_value(v, t) with the same t
    ret,        \* what the last call returned (or that it raised)
    history,    \* RefSpec: every sample recorded since the last reset
    now,        \* RefSpec: the time of the last call; SensorSpec: utcnow()
    _timeout_start,  \* SensorMovingAvg._timeout_start: <<>> for None, else <<t>>
    _state,     \* SensorMovingAvg._state: None, a returned number or Unavailable
    attrs,      \* _icon, _device_class, _attr_state_class, _unit_of_measurement
    event,      \* the last handler run: [kind, state, changed]
    raised,     \* the last handler ended with an uncaught exception
    outage      \* <<t>>: None/unknown/unavailable was first reported at t and no
                \* valid numeric sample has been received since; else <<>>

avgVars == <<data, precision, lastRec, epoch, call, repeated, ret>>

sensorVars == <<_timeout_start, _state, attrs, event, raised, outage>>

vars == <<data, precision, lastRec, epoch, call, repeated, ret, history, now,
          _timeout_start, _state, attrs, event, raised, outage>>

\* ---- data objects -------------------------------------------------------
_tuple(val, timestamp) ==
    [value |-> val, timestamp |-> timestamp, synthetic |-> FALSE]

_timestamp(tuple) == tuple.timestamp

_value(tuple) == tuple.value

\* ---- return values ------------------------------------------------------
\* `return None`
None == [kind |-> "none", scaled |-> 0, n |-> 0, d |-> 1]

\* an uncaught ZeroDivisionError leaving update()
Raised == [kind |-> "raise", scaled |-> 0, n |-> 0, d |-> 1]

Pow10(p) == IF p = 0 THEN 1 ELSE IF p = 1 THEN 10 ELSE IF p = 2 THEN 100 ELSE 1000

Abs(x) == IF x < 0 THEN -x ELSE x

\* variant: the fraction is cut off (int()) instead of rounded
RoundHalfEven_Truncate(n, d, p) ==
    ((IF d < 0 THEN -n ELSE n) * Pow10(p)) \div Abs(d)

\* round(n / d, p) * 10^p for d # 0: Python rounds to the nearest multiple of
\* 10^-p and a tie goes to the even one
RoundHalfEven(n, d, p) ==
    LET nn == (IF d < 0 THEN -n ELSE n) * Pow10(p)
        dd == Abs(d)
        q  == nn \div dd
        r  == nn - q * dd
    IN  IF 2 * r < dd THEN q
        ELSE IF 2 * r > dd THEN q + 1
        ELSE IF q % 2 = 0 THEN q ELSE q + 1

\* lines 263-268: the number returned for the unrounded ret_val = n / d is
\* scaled / 10^precision (an int when precision is 0)
Rounded(n, d, p) ==
    [kind |-> "num", scaled |-> RoundHalfEven(n, d, p), n |-> n, d |-> d]

\* ---- update(): moving the window ---------------------------------------
\* variant: `if` in place of `while`, at most one sample is removed
PopExpired_Once(d, start, removed) ==
    IF Len(d) > 1 /\ _timestamp(d[1]) < start
    THEN [data |-> Tail(d), removed |-> <<d[1]>>]
    ELSE [data |-> d, removed |-> removed]

\* the while loop of lines 237-239; removed is <<>> for None, else <<sample>>
RECURSIVE PopExpired(_, _, _)
PopExpired(d, start, removed) ==
    IF Len(d) > 1 /\ _timestamp(d[1]) < start
    THEN PopExpired(Tail(d), start, <<d[1]>>)
    ELSE [data |-> d, removed |-> removed]

\* variant: lines 240-242 left out, an expired sample is simply dropped
AddBack_Never(d, start, removed) == d

\* variant: `>=` in place of `>` in the test of line 240
AddBack_AtOrAfter(d, start, removed) ==
    IF removed # <<>> /\ _timestamp(d[1]) >= start
    THEN <<[_tuple(_value(removed[1]), start) EXCEPT !.synthetic = TRUE]>> \o d
    ELSE d

\* variant: line 240 tests `removed is not None` only
AddBack_Always(d, start, removed) ==
    IF removed # <<>>
    THEN <<[_tuple(_value(removed[1]), start) EXCEPT !.synthetic = TRUE]>> \o d
    ELSE d

\* variant: line 241 puts the removed sample back with its own timestamp
AddBack_Unchanged(d, start, removed) ==
    IF removed # <<>> /\ _timestamp(d[1]) > start
    THEN <<removed[1]>> \o d
    ELSE d

\* lines 240-241: put the last removed value back at the window start
AddBack(d, start, removed) ==
    IF removed # <<>> /\ _timestamp(d[1]) > start
    THEN <<[_tuple(_value(removed[1]), start) EXCEPT !.synthetic = TRUE]>> \o d
    ELSE d

\* lines 234-242
MoveWindow(d, timestamp) ==
    LET start == timestamp - W
        p     == PopExpired(d, start, <<>>)
    IN  AddBack(p.data, start, p.removed)

\* ---- update(): the weighted sum ----------------------------------------
\* value * delta, the numerator of _weighted's value * delta / duration
_weighted(cur, next) == _value(cur) * (next - _timestamp(cur))

\* variant: line 255 weights the segment with cur's value instead of prev's
RECURSIVE PairSum_Cur(_, _)
PairSum_Cur(d, from) ==
    IF from >= Len(d) THEN 0
    ELSE _value(d[from + 1]) * (_timestamp(d[from + 1]) - _timestamp(d[from]))
         + PairSum_Cur(d, from + 1)

\* the for loop of lines 253-258 over the pairs (d[i], d[i+1]), i >= from
RECURSIVE PairSum(_, _)
PairSum(d, from) ==
    IF from >= Len(d) THEN 0
    ELSE _weighted(d[from], _timestamp(d[from + 1])) + PairSum(d, from + 1)

\* lines 259-262: the tail segment up to the evaluation instant
TailTerm(d, timestamp) ==
    LET cur == d[Len(d)]
    IN  IF timestamp > _timestamp(cur) THEN _weighted(cur, timestamp) ELSE 0

\* lines 247-268 for a deque d of two or more samples
Average(d, timestamp, p) ==
    LET duration == timestamp - _timestamp(d[1])
    IN  IF duration = 0 THEN Raised
        ELSE Rounded(PairSum(d, 1) + TailTerm(d, timestamp), duration, p)

\* variant: the loop of line 237 without `len(self._data) > 1`; once the
\* deque is empty, self._data[0] in line 240 raises IndexError
RECURSIVE PopAll(_, _, _)
PopAll(d, start, removed) ==
    IF Len(d) > 0 /\ _timestamp(d[1]) < start
    THEN PopAll(Tail(d), start, <<d[1]>>)
    ELSE [data |-> d, removed |-> removed]

update_NoLenGuard(d, timestamp, p) ==
    IF Len(d) = 0 THEN [data |-> d, ret |-> None]
    ELSE IF Len(d) = 1 THEN [data |-> d, ret |-> Rounded(_value(d[1]), 1, p)]
    ELSE LET q == PopAll(d, timestamp - W, <<>>)
             m == IF q.data = <<>> THEN <<>>
                  ELSE AddBack(q.data, timestamp - W, q.removed)
         IN  IF Len(m) = 0 THEN [data |-> m, ret |-> Raised]
             ELSE IF Len(m) = 1
             THEN [data |-> m, ret |-> Rounded(_value(m[1]), 1, p)]
             ELSE [data |-> m, ret |-> Average(m, timestamp, p)]

\* variant: update() without the size == 1 branch of lines 230-231
update_NoSingle(d, timestamp, p) ==
    IF Len(d) <= 1 THEN [data |-> d, ret |-> None]
    ELSE LET m == MoveWindow(d, timestamp)
         IN  IF Len(m) = 1
             THEN [data |-> m, ret |-> Rounded(_value(m[1]), 1, p)]
             ELSE [data |-> m, ret |-> Average(m, timestamp, p)]

\* update(timestamp): the deque it leaves and what it returns
update(d, timestamp, p) ==
    IF Len(d) = 0 THEN [data |-> d, ret |-> None]
    ELSE IF Len(d) = 1 THEN [data |-> d, ret |-> Rounded(_value(d[1]), 1, p)]
    ELSE LET m == MoveWindow(d, timestamp)
         IN  IF Len(m) = 1
             THEN [data |-> m, ret |-> Rounded(_value(m[1]), 1, p)]
             ELSE [data |-> m, ret |-> Average(m, timestamp, p)]

\* ---- the state machine --------------------------------------------------
\* _icon, _device_class, _attr_state_class and _unit_of_measurement are None
NoAttrs == [icon |-> <<>>, device_class |-> <<>>, state_class |-> <<>>,
            unit |-> <<>>]

Init ==
    /\ data = <<>>
    /\ precision \in 0..MaxPrecision
    /\ lastRec = 0
    /\ epoch = "new"
    /\ call = [op |-> "init", val |-> 0, timestamp |-> 0]
    /\ repeated = FALSE
    /\ ret = None
    /\ history = <<>>
    /\ now = 0
    /\ _timeout_start = <<>>
    /\ _state = None
    /\ attrs = NoAttrs
    /\ event = [kind |-> "init", state |-> "None", changed |-> FALSE]
    /\ raised = FALSE
    /\ outage = <<>>

\* self._avg.update_value(val, timestamp): the averager and its bookkeeping
Avg_update_value(val, timestamp) ==
    /\ LET u == update(Append(data, _tuple(val, timestamp)), timestamp, precision)
       IN  /\ data' = u.data
           /\ ret' = u.ret
    /\ lastRec' = timestamp
    /\ epoch' = "recorded"
    /\ call' = [op |-> "record", val |-> val, timestamp |-> timestamp]
    /\ repeated' = FALSE
    /\ UNCHANGED precision

\* self._avg.update(timestamp)
Avg_update(timestamp) ==
    /\ LET u == update(data, timestamp, precision)
       IN  /\ data' = u.data
           /\ ret' = u.ret
    /\ call' = [op |-> "evaluate", val |-> 0, timestamp |-> timestamp]
    /\ repeated' = (call.op \in {"evaluate", "record"} /\ call.timestamp = timestamp)
    /\ UNCHANGED <<precision, lastRec, epoch>>

\* self._avg.reset()
Avg_reset ==
    /\ data' = <<>>
    /\ epoch' = "reset"
    /\ call' = [op |-> "reset", val |-> 0, timestamp |-> 0]
    /\ repeated' = FALSE
    /\ ret' = None
    /\ UNCHANGED <<precision, lastRec>>

\* a handler that makes no call to the averager
Avg_untouched ==
    /\ call' = [op |-> "none", val |-> 0, timestamp |-> 0]
    /\ repeated' = FALSE
    /\ ret' = None
    /\ UNCHANGED <<data, precision, lastRec, epoch>>

\* update_value(val, timestamp), timestamp not before the previous sample's
Record(val, timestamp) ==
    /\ Len(data) < MaxLen
    /\ timestamp >= lastRec
    /\ Avg_update_value(val, timestamp)
    /\ UNCHANGED <<history, now>>
    /\ UNCHANGED sensorVars

\* update(timestamp) called on its own
Evaluate(timestamp) ==
    /\ Avg_update(timestamp)
    /\ UNCHANGED <<history, now>>
    /\ UNCHANGED sensorVars

\* variant: reset() that leaves the deque as it is
Reset_KeepsData ==
    /\ epoch' = "reset"
    /\ call' = [op |-> "reset", val |-> 0, timestamp |-> 0]
    /\ repeated' = FALSE
    /\ ret' = None
    /\ UNCHANGED <<data, precision, lastRec>>
    /\ UNCHANGED <<history, now>>
    /\ UNCHANGED sensorVars

\* reset()
Reset ==
    /\ Avg_reset
    /\ UNCHANGED <<history, now>>
    /\ UNCHANGED sensorVars

\* data_points()
data_points == Len(data)

Next ==
    \/ \E val \in Values, timestamp \in Times : Record(val, timestamp)
    \/ \E timestamp \in Times : Evaluate(timestamp)
    \/ Reset

Spec == Init /\ [][Next]_vars

\* ---- the averager next to a record of everything it was given ------------
\* update_value at or after the time of the previous call
RefRecord(val, timestamp) ==
    /\ Len(data) < MaxLen
    /\ Len(history) < MaxHist
    /\ timestamp >= now
    /\ Avg_update_value(val, timestamp)
    /\ history' = Append(history, _tuple(val, timestamp))
    /\ now' = timestamp
    /\ UNCHANGED sensorVars

\* update at or after the time of the previous call
RefEvaluate(timestamp) ==
    /\ timestamp >= now
    /\ Avg_update(timestamp)
    /\ now' = timestamp
    /\ UNCHANGED history
    /\ UNCHANGED sensorVars

RefReset ==
    /\ Avg_reset
    /\ history' = <<>>
    /\ UNCHANGED now
    /\ UNCHANGED sensorVars

RefNext ==
    \/ \E val \in Values, timestamp \in Times : RefRecord(val, timestamp)
    \/ \E timestamp \in Times : RefEvaluate(timestamp)
    \/ RefReset

RefSpec == Init /\ [][RefNext]_vars

\* ---- SensorMovingAvg ------------------------------------------------------
STATE_UNKNOWN == "unknown"

STATE_UNAVAILABLE == "unavailable"

DEFAULT_ICON == "mdi:chart-line-variant"

\* the device and state classes the host platform knows
SENSOR_DEVICE_CLASSES == {"temperature"}

SENSOR_STATE_CLASSES == {"measurement"}

\* self._state = STATE_UNAVAILABLE
Unavailable == [kind |-> "unavailable", scaled |-> 0, n |-> 0, d |-> 1]

\* the state strings an upstream entity reports
States == {STATE_UNKNOWN, STATE_UNAVAILABLE, "1", "2", "on"}

\* the attribute dictionaries of a state object; an absent key is <<>>.  The
\* one dictionary used has no icon, a known device class, a state class
\* the platform does not know and a unit.
Attributes ==
    { [icon |-> <<>>, device_class |-> <<"temperature">>,
       state_class |-> <<"total_sum">>, unit |-> <<"C">>] }

\* the objects event.data.get("new_state") yields at time t: <<>> for
\* None, else <<state object>>.  The state was last updated at t; it changed
\* then too (last_changed = last_updated) or had changed a second earlier
\* (an update of the attributes only).
NewStates(t) ==
    {<<>>} \cup
    { <<[state |-> st, last_changed |-> IF same THEN t ELSE t - 1,
         last_updated |-> t, attributes |-> a]>> :
        st \in States, same \in BOOLEAN, a \in Attributes }

\* variant: a conversion that takes any text for a number (1)
Float_Lenient(st) ==
    IF st = "1" THEN <<1>> ELSE IF st = "2" THEN <<2>> ELSE <<1>>

\* float(new_state.state): <<value>>, or <<>> when it raises ValueError
Float(st) ==
    IF st = "1" THEN <<1>> ELSE IF st = "2" THEN <<2>> ELSE <<>>

\* lines 127-134: the attributes taken from the entity while still None
SetAttrs(a, attributes) ==
    [icon |-> IF a.icon # <<>> THEN a.icon
              ELSE IF attributes.icon # <<>> THEN attributes.icon
              ELSE <<DEFAULT_ICON>>,
     device_class |->
         IF a.device_class = <<>> /\ attributes.device_class # <<>>
            /\ attributes.device_class[1] \in SENSOR_DEVICE_CLASSES
         THEN attributes.device_class ELSE a.device_class,
     state_class |->
         IF a.state_class = <<>> /\ attributes.state_class # <<>>
            /\ attributes.state_class[1] \in SENSOR_STATE_CLASSES
         THEN attributes.state_class ELSE a.state_class,
     unit |-> IF a.unit = <<>> THEN attributes.unit ELSE a.unit]

\* _update_filter_sensor_state(new_state) run while utcnow() is t
StateChange(new_state, t) ==
    /\ t = now
    /\ UNCHANGED <<history, now>>
    /\ IF new_state = <<>>
          \/ new_state[1].state \in {STATE_UNKNOWN, STATE_UNAVAILABLE}
       THEN \* lines 117-120
            /\ _timeout_start' = <<t>>
            /\ Avg_untouched
            /\ raised' = FALSE
            /\ outage' = IF outage = <<>> THEN <<t>> ELSE outage
            /\ event' = [kind |-> "state",
                         state |-> IF new_state = <<>> THEN "None"
                                   ELSE new_state[1].state,
                         changed |-> FALSE]
            /\ UNCHANGED <<_state, attrs>>
       ELSE LET st == new_state[1]
                f  == Float(st.state)
            IN  /\ event' = [kind |-> "state", state |-> st.state,
                             changed |-> (st.last_changed = st.last_updated)]
                /\ IF st.last_changed = st.last_updated
                   THEN \* lines 124-143
                        /\ _timeout_start' = <<>>
                        /\ attrs' = SetAttrs(attrs, st.attributes)
                        /\ IF f = <<>>
                           THEN \* ValueError, caught in line 142
                                /\ Avg_untouched
                                /\ raised' = FALSE
                                /\ UNCHANGED <<_state, outage>>
                           ELSE /\ Len(data) < MaxSensorLen
                                /\ st.last_changed >= lastRec
                                /\ Avg_update_value(f[1], st.last_changed)
                                /\ raised' = (ret'.kind = "raise")
                                /\ _state' = IF ret'.kind = "raise"
                                             THEN _state ELSE ret'
                                /\ outage' = <<>>
                   ELSE \* line 145
                        /\ Avg_untouched
                        /\ raised' = FALSE
                        /\ UNCHANGED <<_timeout_start, _state, attrs, outage>>

\* variant: `>=` in place of `>` in the test of line 161
Poll_AtTimeout(t) ==
    /\ t = now
    /\ event' = [kind |-> "poll", state |-> "None", changed |-> FALSE]
    /\ UNCHANGED <<history, now, _timeout_start, attrs, outage>>
    /\ IF _timeout_start # <<>>
       THEN /\ raised' = FALSE
            /\ IF t >= _timeout_start[1] + Timeout
               THEN /\ _state' = Unavailable
                    /\ Avg_reset
               ELSE /\ Avg_untouched
                    /\ UNCHANGED _state
       ELSE /\ Avg_update(t)
            /\ raised' = (ret'.kind = "raise")
            /\ _state' = IF ret'.kind = "raise" THEN _state ELSE ret'

\* async_update() run while utcnow() is t
Poll(t) ==
    /\ t = now
    /\ event' = [kind |-> "poll", state |-> "None", changed |-> FALSE]
    /\ UNCHANGED <<history, now, _timeout_start, attrs, outage>>
    /\ IF _timeout_start # <<>>
       THEN /\ raised' = FALSE
            /\ IF t > _timeout_start[1] + Timeout
               THEN /\ _state' = Unavailable
                    /\ Avg_reset
               ELSE /\ Avg_untouched
                    /\ UNCHANGED _state
       ELSE /\ Avg_update(t)
            /\ raised' = (ret'.kind = "raise")
            /\ _state' = IF ret'.kind = "raise" THEN _state ELSE ret'

\* available
available == ~(_state = None \/ _state = Unavailable)

\* a second passes: utcnow() advances, no handler runs
Tick ==
    /\ now < MaxClock
    /\ now' = now + 1
    /\ event' = [kind |-> "tick", state |-> "None", changed |-> FALSE]
    /\ Avg_untouched
    /\ raised' = FALSE
    /\ UNCHANGED <<history, _timeout_start, _state, attrs, outage>>

SensorNext ==
    \/ \E new_state \in NewStates(now) : StateChange(new_state, now)
    \/ Poll(now)
    \/ Tick

SensorSpec == Init /\ [][SensorNext]_vars

TypeOK ==
    /\ Len(data) <= MaxLen + 1
    /\ precision \in 0..MaxPrecision
    /\ epoch \in {"new", "reset", "recorded"}
    /\ ret.kind \in {"none", "num", "raise"}
    /\ repeated \in BOOLEAN


\* ---- properties ---------------------------------------------------------
IsCall == call.op \in {"record", "evaluate"}

\* the window start of the last call
start == call.timestamp - W

\* C1: no call raises: every update_value and every update whose timestamp
\* is not earlier than the last recorded one returns a number or None; the
\* division by duration is never a division by zero.
C1_NoCallRaises ==
    (IsCall /\ call.timestamp >= lastRec) => ret.kind \in {"num", "none"}

\* C2: update(t) returns None if and only if the deque is empty when it is
\* called, and returns a number whenever the deque holds a sample, for
\* every t.
C2_NoDataIffEmpty ==
    [][call'.op = "evaluate" =>
          /\ (ret'.kind = "none" <=> data = <<>>)
          /\ (data # <<>> => ret'.kind = "num")]_vars

\* sum over the samples d[i..Len(d)] of the value times the time it is held:
\* up to the next sample's timestamp, the last one up to t
RECURSIVE HeldSum(_, _, _)
HeldSum(d, i, t) ==
    IF i > Len(d) THEN 0
    ELSE d[i].value * ((IF i < Len(d) THEN d[i + 1].timestamp ELSE t)
                          - d[i].timestamp)
         + HeldSum(d, i + 1, t)

\* C3: with two or more samples left after trimming and t not earlier than
\* the last one's timestamp, the unrounded result of update(t) is
\* (sum of value * held time) / (t - first timestamp).
C3_StepFunctionMean ==
    (IsCall /\ Len(data) >= 2 /\ call.timestamp >= data[Len(data)].timestamp) =>
        /\ ret.kind = "num"
        /\ ret.n * (call.timestamp - data[1].timestamp)
              = HeldSum(data, 1, call.timestamp) * ret.d


\* the deque update() works on in the step to the next state: the current
\* one, with the new sample appended when the call is update_value
Before == IF call'.op = "record"
          THEN Append(data, _tuple(call'.val, call'.timestamp))
          ELSE data

\* how many samples of the ordered deque d are removed as older than s: all
\* those with a timestamp before s, but never the last sample
Expired(d, s) ==
    LET older == Cardinality({i \in 1..Len(d) : d[i].timestamp < s})
    IN  IF older < Len(d) THEN older ELSE Len(d) - 1

\* C4: boundary re-insertion: in update(t) on two or more samples, if a
\* sample was removed as older than start = t - W and the new oldest
\* sample's timestamp is strictly after start, the first retained sample
\* becomes (value of the last removed sample, start); otherwise no
\* synthetic sample is inserted and the deque is what trimming left.
C4_BoundaryReinsertion ==
    [][(call'.op \in {"record", "evaluate"} /\ Len(Before) >= 2) =>
          LET s    == call'.timestamp - W
              k    == Expired(Before, s)
              rest == SubSeq(Before, k + 1, Len(Before))
          IN  IF k >= 1 /\ rest[1].timestamp > s
              THEN /\ Len(data') = Len(rest) + 1
                   /\ data'[1].value = Before[k].value
                   /\ data'[1].timestamp = s
                   /\ data'[1].synthetic
                   /\ SubSeq(data', 2, Len(data')) = rest
              ELSE data' = rest]_vars

\* the spec's example scaled to the window: samples at t0, t0 + W/2 and
\* t0 + W + 1 leave the first one's value at the window start t0 + 1
C4_Witness ==
    /\ call.op = "record"
    /\ Len(data) = 3
    /\ data[1].synthetic
    /\ data[1].timestamp = start
    /\ data[2].timestamp > start
    /\ data[1].value # data[2].value

\* C5: after any update(t_eval), directly or through update_value, every
\* retained sample except possibly the first has timestamp >= t_eval - W.
C5_RetainedWithinWindow ==
    IsCall => \A i \in 2..Len(data) : data[i].timestamp >= start

\* an evaluation that removed samples and kept two or more
C5_Witness ==
    /\ call.op = "evaluate"
    /\ Len(data) >= 2
    /\ data[1].synthetic
    /\ data[2].timestamp > start

\* C6 as stated: after any update(t_eval) the first retained sample is
\* before the window start only if it is a synthetic boundary marker; a
\* recorded sample is never left retained before the window start.
C6_OnlySyntheticBeforeWindow ==
    (IsCall /\ data # <<>> /\ data[1].timestamp < start) => data[1].synthetic

\* C6 amended: after any update(t_eval) the first retained sample is before
\* the window start only if it is the only retained sample, and then it is
\* a recorded one; a synthetic boundary marker is never left retained
\* before the window start.
C6_OnlyLoneSampleBeforeWindow ==
    IsCall =>
        /\ (data # <<>> /\ data[1].timestamp < start) =>
               (Len(data) = 1 /\ ~data[1].synthetic)
        /\ \A i \in 1..Len(data) :
               data[i].synthetic => data[i].timestamp >= start

\* the window has moved past the only sample left
C6_Witness ==
    /\ call.op = "evaluate"
    /\ Len(data) = 1
    /\ data[1].timestamp < start

\* C7: once a sample has been recorded, the deque is never empty in any
\* later state reached without reset.
C7_NeverEmptyOnceRecorded ==
    epoch = "recorded" => Len(data) >= 1

\* an evaluation more than two windows after the last recorded sample
C7_Witness ==
    /\ epoch = "recorded"
    /\ call.op = "evaluate"
    /\ call.timestamp >= lastRec + 2 * W
    /\ Len(data) = 1

\* C8: the deque is ordered by non-decreasing timestamp; a synthetic
\* boundary sample is never later than the sample that follows it.
C8_OrderedByTimestamp ==
    \A i \in 1..(Len(data) - 1) : data[i].timestamp <= data[i + 1].timestamp

\* a synthetic sample in front of two recorded ones
C8_Witness ==
    /\ Len(data) = 3
    /\ data[1].synthetic
    /\ data[1].timestamp < data[2].timestamp
    /\ data[2].timestamp < data[3].timestamp

\* C9: update(t) called twice with no update_value in between returns the
\* same result both times and the second call leaves the deque as the
\* first one left it.
C9_EvaluateIdempotent ==
    [][repeated' => (ret' = ret /\ data' = data)]_vars

\* a repeated evaluation of a deque the first evaluation had trimmed
C9_Witness ==
    /\ repeated
    /\ Len(data) >= 2
    /\ data[1].synthetic
    /\ ret.kind = "num"

\* C10: after reset() data_points() is 0 and the next update(t) returns
\* None for every t; the first update_value(v, t) after a reset returns v
\* and retains that sample only.
C10_ResetClearsHistory ==
    [][/\ call'.op = "reset" => data_points' = 0
       /\ (epoch = "reset" /\ call'.op = "evaluate") => ret'.kind = "none"
       /\ (epoch = "reset" /\ call'.op = "record") =>
              /\ ret'.kind = "num"
              /\ ret'.scaled = call'.val * Pow10(precision)
              /\ data' = <<_tuple(call'.val, call'.timestamp)>>]_vars

\* an evaluation after a reset that discarded recorded samples
C10_Witness ==
    /\ epoch = "reset"
    /\ lastRec > 0
    /\ call.op = "evaluate"
    /\ ret.kind = "none"
    /\ data_points = 0


\* C11: with exactly one sample retained, update(t) returns that sample's
\* value for every t and leaves the deque unchanged; when trimming inside
\* update collapses the deque to one sample, the result is the value of
\* that remaining sample, the last of the deque.
C11_SingleSampleValue ==
    [][/\ (call'.op = "evaluate" /\ Len(data) = 1) =>
              /\ ret'.kind = "num"
              /\ ret'.scaled = data[1].value * Pow10(precision)
              /\ data' = data
       /\ (call'.op \in {"record", "evaluate"} /\ Len(Before) >= 2
              /\ Len(data') = 1) =>
              /\ ret'.kind = "num"
              /\ ret'.scaled = data'[1].value * Pow10(precision)
              /\ data'[1] = Before[Len(Before)]]_vars

\* one sample evaluated more than a window after its timestamp
C11_Witness ==
    /\ call.op = "evaluate"
    /\ Len(data) = 1
    /\ call.timestamp > data[1].timestamp + W
    /\ ret.kind = "num"
    /\ ret.scaled = 2 * Pow10(precision)

\* C13: every number returned is the unrounded mean n / d rounded to
\* `precision` decimal digits: it is a whole multiple of 10^-precision (a
\* whole number for precision 0) at most half such a unit from n / d.
C13_RoundedToPrecision ==
    (IsCall /\ ret.kind = "num") =>
        LET nn == (IF ret.d < 0 THEN -ret.n ELSE ret.n) * Pow10(precision)
            dd == IF ret.d < 0 THEN -ret.d ELSE ret.d
            e  == ret.scaled * dd - nn
        IN  /\ 2 * e <= dd
            /\ 2 * e >= -dd

\* a mean in thirds that rounding changes
C13_Witness ==
    /\ IsCall
    /\ ret.kind = "num"
    /\ ret.d = 3
    /\ ret.n % 3 # 0

\* C15: the value update_value(v, t) returns does not depend on v when the
\* deque already holds a sample with a timestamp strictly before t: every
\* other value v2 in place of v gives the same return.
C15_RecordIgnoresNewValue ==
    [][(call'.op = "record" /\ data # <<>>
           /\ data[1].timestamp < call'.timestamp) =>
          \A v2 \in Values :
              ret' = update(Append(data, _tuple(v2, call'.timestamp)),
                            call'.timestamp, precision).ret]_vars

\* the spec's example: the second sample's value 2 is recorded after a
\* sample of value 1 and the return is 1
C15_Witness ==
    /\ call.op = "record"
    /\ call.val = 2
    /\ Len(data) = 2
    /\ data[1].value = 1
    /\ ~data[1].synthetic
    /\ data[1].timestamp < call.timestamp
    /\ ret.kind = "num"
    /\ ret.scaled = Pow10(precision)

\* C16: whenever update(t) reaches the weighted computation (two or more
\* samples after trimming and re-insertion), duration = t - first timestamp
\* is <= W; when this call re-inserted a boundary sample, duration = W.
C16_DurationWithinWindow ==
    [][(call'.op \in {"record", "evaluate"} /\ Len(data') >= 2) =>
          LET duration == call'.timestamp - data'[1].timestamp
              inserted == data'[1].synthetic /\ data'[1] # Before[1]
          IN  /\ duration <= W
              /\ ret'.kind = "num" => ret'.d = duration
              /\ inserted => duration = W]_vars

\* the weighted computation over a full window after a re-insertion
C16_Witness ==
    /\ IsCall
    /\ Len(data) >= 2
    /\ data[1].synthetic
    /\ ret.kind = "num"
    /\ ret.d = W

\* C17: for an evaluation instant not earlier than the last sample, the
\* unrounded result of update(t) lies between the minimum and the maximum
\* of the values of the samples retained after trimming.
C17_WithinValueRange ==
    (IsCall /\ data # <<>> /\ call.timestamp >= data[Len(data)].timestamp) =>
        /\ ret.kind = "num"
        /\ \E i \in 1..Len(data) :
               ret.n * (IF ret.d < 0 THEN -1 ELSE 1)
                   >= data[i].value * (IF ret.d < 0 THEN -ret.d ELSE ret.d)
        /\ \E i \in 1..Len(data) :
               ret.n * (IF ret.d < 0 THEN -1 ELSE 1)
                   <= data[i].value * (IF ret.d < 0 THEN -ret.d ELSE ret.d)


\* the time within [lo, t] during which sample i of h is the current value
\* of the step function: from its timestamp to the next sample's, the last
\* one to t
HeldWithin(h, i, lo, t) ==
    LET from  == IF h[i].timestamp > lo THEN h[i].timestamp ELSE lo
        next  == IF i < Len(h) THEN h[i + 1].timestamp ELSE t
        until == IF next < t THEN next ELSE t
    IN  IF until > from THEN until - from ELSE 0

RECURSIVE StepIntegral(_, _, _, _)
StepIntegral(h, i, lo, t) ==
    IF i > Len(h) THEN 0
    ELSE h[i].value * HeldWithin(h, i, lo, t) + StepIntegral(h, i + 1, lo, t)

\* C14: trimming loses nothing: at every update(t), direct or through
\* update_value, with t strictly later than the first recorded sample, the
\* unrounded result equals the mean of the step function of all samples
\* recorded since the last reset over [max(t - W, first timestamp), t].
C14_TrimmingLosesNothing ==
    (IsCall /\ history # <<>> /\ call.timestamp > history[1].timestamp) =>
        LET t  == call.timestamp
            lo == IF t - W > history[1].timestamp THEN t - W
                  ELSE history[1].timestamp
        IN  /\ ret.kind = "num"
            /\ ret.n * (t - lo) = StepIntegral(history, 1, lo, t) * ret.d

\* samples were trimmed and the boundary sample carries part of the mean
C14_Witness ==
    /\ call.op = "evaluate"
    /\ Len(history) >= 3
    /\ Len(data) >= 2
    /\ data[1].synthetic
    /\ data[1].value # data[2].value
    /\ history[1].timestamp < start
    /\ ret.kind = "num"
    /\ ret.n % ret.d # 0


\* C12: once None/unknown/unavailable has been reported and no valid
\* numeric sample has been received for longer than the timeout, a poll
\* resets the averager and sets the state to unavailable, whatever events
\* that are not valid numeric samples arrived in between.
C12_TimeoutResets ==
    (event.kind = "poll" /\ outage # <<>> /\ now > outage[1] + Timeout) =>
        /\ call.op = "reset"
        /\ data = <<>>
        /\ _state = Unavailable

\* C18: while a timeout is active a poll makes no call to the averager and
\* leaves the deque and the reported value unchanged until
\* now > timeout_start + timeout, when it resets the averager; the averager
\* is reset by a poll in that case only and never by a state-change event.
C18_PollDuringTimeout ==
    [][/\ (event'.kind = "poll" /\ _timeout_start # <<>>
              /\ ~(now' > _timeout_start[1] + Timeout)) =>
              /\ call'.op = "none"
              /\ data' = data
              /\ _state' = _state
       /\ (event'.kind = "poll" /\ _timeout_start # <<>>
              /\ now' > _timeout_start[1] + Timeout) =>
              /\ call'.op = "reset"
              /\ data' = <<>>
       /\ call'.op = "reset" =>
              /\ event'.kind = "poll"
              /\ _timeout_start # <<>>
              /\ now' > _timeout_start[1] + Timeout]_vars

\* a poll after the timeout that discarded recorded samples
C18_Witness ==
    /\ event.kind = "poll"
    /\ call.op = "reset"
    /\ _timeout_start # <<>>
    /\ now > _timeout_start[1] + Timeout
    /\ lastRec > 0
    /\ _state = Unavailable
    /\ data = <<>>

\* C19: a state-change event whose state is not a number, or whose
\* last_changed differs from last_updated, makes no call to update_value,
\* leaves the deque and the reported value unchanged and does not raise.
C19_NonNumericIgnored ==
    [][(event'.kind = "state"
           /\ (event'.state \notin {"1", "2"} \/ ~event'.changed)) =>
          /\ call'.op = "none"
          /\ data' = data
          /\ _state' = _state
          /\ ~raised']_vars

\* a text state arriving, as a change, at a sensor that reports a number
C19_Witness ==
    /\ event.kind = "state"
    /\ event.state = "on"
    /\ event.changed
    /\ call.op = "none"
    /\ data # <<>>
    /\ _state.kind = "num"
    /\ ~raised

=============================================================================
